---- MODULE Spec2Model ----
(***************************************************************************)
(* EBS snapshot cleanup (src/main.py): lambda_handler fetches the          *)
(* account's snapshots, groups them by volume, sorts each group oldest     *)
(* first and walks it, deleting snapshots older than the cutoff while      *)
(* keeping the newest MIN_SNAPSHOTS_TO_KEEP, the snapshots carrying the    *)
(* protected tag and every snapshot of a critical volume.                  *)
(*                                                                         *)
(* Times are whole days.  Strings whose case matters (tag values) are      *)
(* sequences of characters; tag keys, compared with ==, are strings.       *)
(***************************************************************************)
EXTENDS Integers, Sequences, FiniteSets, TLC

\* ---------------------------------------------------------------- bounds
MaxSnaps == 2
MaxTime == 1
MaxMin == 1
MaxRuns == 2

\* ------------------------------------------------- configuration (main.py:12-18)
RETENTION_DAYS == 30
PROTECTED_TAG_KEY == "ProtectSnapshot"
PROTECTED_TAG_VALUE == <<"t", "r", "u", "e">>
CRITICAL_VOLUME_TAG_KEY == "CriticalVolume"
CRITICAL_VOLUME_TAG_VALUE == <<"t", "r", "u", "e">>

VARIABLES
    MIN_SNAPSHOTS_TO_KEEP,  \* int(os.environ.get('MIN_SNAPSHOTS_TO_KEEP', 3))
    DRY_RUN,                \* os.environ.get('DRY_RUN', 'True').lower() == 'true'
    account,                \* provider: the snapshots the account owns, in listing order
    volumes,                \* provider: volume id -> the states the volume can be in, given
                            \*   what describe_volumes has answered so far (it is not mutated)
    now,                    \* provider: the wall clock, in days; the runs of the model
                            \*   take place the same day
    pc,                     \* "start" | "volumes" | "walk" | "done"
    run,                    \* number of the current invocation
    snapshots,              \* lambda_handler: the list get_account_snapshots returned
    volume_snapshots,       \* lambda_handler: the dict of group_by_volume, in insertion order
    vi,                     \* lambda_handler: position of the for loop over the dict
    si,                     \* process_volume_snapshots: position of the for loop over snapshots
    remaining,              \* process_volume_snapshots: local
    cutoff_date,            \* process_volume_snapshots: local
    deleted, protected, too_few,   \* process_volume_snapshots: locals
    deleted_count, protected_count, critical_volume_count, too_few_count,
    result,                 \* the value lambda_handler returned (<<>> while running)
    deleteLog,              \* history: SnapshotId -> outcomes of the ec2.delete_snapshot calls
                            \*   made for it this run
    classified,             \* history: SnapshotId -> the branches that disposed of it this run
    lookup,                 \* history: volume id -> the describe_volumes outcomes of this run
    prev,                   \* history: what the previous invocation did
    sizes0                  \* history: volume id -> size of its group before the first run

vars == <<MIN_SNAPSHOTS_TO_KEEP, DRY_RUN, account, volumes, now, pc, run, snapshots,
          volume_snapshots, vi, si, remaining, cutoff_date, deleted, protected, too_few,
          deleted_count, protected_count, critical_volume_count, too_few_count, result,
          deleteLog, classified, lookup, prev, sizes0>>

config == <<MIN_SNAPSHOTS_TO_KEEP, DRY_RUN>>
locals == <<si, remaining, cutoff_date, deleted, protected, too_few>>
totals == <<deleted_count, protected_count, critical_volume_count, too_few_count>>

\* ------------------------------------------------------------- str.lower()
LowerChar(c) ==
    CASE c = "T" -> "t"
      [] c = "R" -> "r"
      [] c = "U" -> "u"
      [] c = "E" -> "e"
      [] c = "F" -> "f"
      [] OTHER -> c

Lower(s) == [i \in DOMAIN s |-> LowerChar(s[i])]

\* ------------------------------------------------------- input universes
VolumeIds == {"vol-1"}
Keys == VolumeIds \cup {"unknown"}
SnapshotIds == 1..MaxSnaps
NowStart == MaxTime + RETENTION_DAYS

SnapshotTagLists ==
    { <<[Key |-> "protectsnapshot", Value |-> <<"f">>],
        [Key |-> "ProtectSnapshot", Value |-> <<"T", "r", "u", "e">>]>> }

VolumeTagLists ==
    { <<[Key |-> "CriticalVolume", Value |-> <<"T", "R", "U", "E">>]>>,
      <<[Key |-> "criticalvolume", Value |-> <<"t", "r", "u", "e">>]>> }

\* A snapshot as describe_snapshots returns it; VolumeId and Tags may be absent.
SnapshotsWithId(id) ==
    LET base == { [SnapshotId |-> id, StartTime |-> t] : t \in 0..MaxTime }
        withVol == base \cup { b @@ ("VolumeId" :> v) : b \in base, v \in VolumeIds }
    IN  withVol \cup { w @@ ("Tags" :> tl) : w \in withVol, tl \in SnapshotTagLists }

RECURSIVE Inventories(_)
Inventories(n) ==
    IF n = 0 THEN { <<>> }
    ELSE { Append(inv, s) : inv \in Inventories(n - 1), s \in SnapshotsWithId(n) }

\* A volume as describe_volumes returns it; Tags may be absent.
VolumeRecords(v) ==
    { [VolumeId |-> v] } \cup { [VolumeId |-> v, Tags |-> tl] : tl \in VolumeTagLists }

\* A volume is deleted (<<>>) or exists (<<its record>>).
VolumeStates(v) == { <<>> } \cup { <<vr>> : vr \in VolumeRecords(v) }

\* --------------------------------------------------- provider behaviour
\* ec2.describe_volumes(VolumeIds=[volume_id]) for a volume in state vs: the
\* volume, or for a deleted volume a NotFound error or an empty list, or in
\* either case a ClientError that says nothing about the volume.
DescribeVolumes(vs) ==
    (IF vs # <<>>
     THEN { [Volumes |-> vs] }
     ELSE { [Error |-> "InvalidVolume.NotFound"], [Volumes |-> <<>>] })
    \cup { [Error |-> "RequestLimitExceeded"] }

\* What an outcome of describe_volumes leaves possible for a volume in state vs.
Observed(possible, vs, outcome) ==
    IF "Error" \in DOMAIN outcome /\ outcome.Error # "InvalidVolume.NotFound"
    THEN possible
    ELSE {vs}

\* ec2.delete_snapshot(SnapshotId=snapshot_id): success or a ClientError.
DeleteOutcomes == { "ok", "InvalidSnapshot.InUse", "RequestLimitExceeded" }

RECURSIVE Without(_, _)
Without(seq, id) ==
    IF seq = <<>> THEN <<>>
    ELSE IF Head(seq).SnapshotId = id THEN Without(Tail(seq), id)
    ELSE <<Head(seq)>> \o Without(Tail(seq), id)

\* ------------------------------------------------------ group_by_volume
\* snapshot.get('VolumeId', 'unknown')
VolumeKey(snapshot) ==
    IF "VolumeId" \in DOMAIN snapshot THEN snapshot.VolumeId ELSE "unknown"

\* volume_snapshots[volume_id].append(snapshot), creating the list on first use;
\* the dict keeps its keys in insertion order.
DictAppend(d, volume_id, snapshot) ==
    IF \E i \in DOMAIN d : d[i].volume_id = volume_id
    THEN [i \in DOMAIN d |->
            IF d[i].volume_id = volume_id
            THEN [d[i] EXCEPT !.snaps = Append(@, snapshot)]
            ELSE d[i]]
    ELSE Append(d, [volume_id |-> volume_id, snaps |-> <<snapshot>>])

RECURSIVE GroupInto(_, _)
GroupInto(d, rest) ==
    IF rest = <<>> THEN d
    ELSE GroupInto(DictAppend(d, VolumeKey(Head(rest)), Head(rest)), Tail(rest))

group_by_volume(snaps) == GroupInto(<<>>, snaps)

\* ------------------------------ snaps.sort(key=lambda x: x['StartTime'])
\* list.sort is stable: equal StartTimes keep their listing order.
RECURSIVE InsertByStartTime(_, _)
InsertByStartTime(sorted, x) ==
    IF sorted = <<>> THEN <<x>>
    ELSE IF Head(sorted).StartTime <= x.StartTime
         THEN <<Head(sorted)>> \o InsertByStartTime(Tail(sorted), x)
         ELSE <<x>> \o sorted

RECURSIVE SortInto(_, _)
SortInto(sorted, rest) ==
    IF rest = <<>> THEN sorted
    ELSE SortInto(InsertByStartTime(sorted, Head(rest)), Tail(rest))

SortByStartTime(snaps) == SortInto(<<>>, snaps)

\* Mutant: the tag value is compared as it is, without .lower().
is_protected_snapshot_CaseSensitive(snapshot) ==
    IF "Tags" \notin DOMAIN snapshot THEN FALSE
    ELSE \E i \in DOMAIN snapshot.Tags :
            /\ snapshot.Tags[i].Key = PROTECTED_TAG_KEY
            /\ snapshot.Tags[i].Value = PROTECTED_TAG_VALUE

\* -------------------------------------------------- is_protected_snapshot
is_protected_snapshot(snapshot) ==
    IF "Tags" \notin DOMAIN snapshot THEN FALSE
    ELSE \E i \in DOMAIN snapshot.Tags :
            /\ snapshot.Tags[i].Key = PROTECTED_TAG_KEY
            /\ Lower(snapshot.Tags[i].Value) = Lower(PROTECTED_TAG_VALUE)

\* Mutant: the tag value is compared as it is, without .lower().
is_critical_volume_CaseSensitive(outcome) ==
    IF "Error" \in DOMAIN outcome
    THEN IF outcome.Error = "InvalidVolume.NotFound" THEN FALSE ELSE TRUE
    ELSE IF "Volumes" \notin DOMAIN outcome \/ outcome.Volumes = <<>> THEN FALSE
    ELSE LET volume == outcome.Volumes[1]
         IN  IF "Tags" \notin DOMAIN volume THEN FALSE
             ELSE \E i \in DOMAIN volume.Tags :
                    /\ volume.Tags[i].Key = CRITICAL_VOLUME_TAG_KEY
                    /\ volume.Tags[i].Value = CRITICAL_VOLUME_TAG_VALUE

\* Mutant: every ClientError of the lookup is taken for "not critical".
is_critical_volume_FailOpen(outcome) ==
    IF "Error" \in DOMAIN outcome
    THEN FALSE
    ELSE IF "Volumes" \notin DOMAIN outcome \/ outcome.Volumes = <<>> THEN FALSE
    ELSE LET volume == outcome.Volumes[1]
         IN  IF "Tags" \notin DOMAIN volume THEN FALSE
             ELSE \E i \in DOMAIN volume.Tags :
                    /\ volume.Tags[i].Key = CRITICAL_VOLUME_TAG_KEY
                    /\ Lower(volume.Tags[i].Value) = Lower(CRITICAL_VOLUME_TAG_VALUE)

\* ----------------------------------------------------- is_critical_volume
\* outcome: what ec2.describe_volumes did, a response or a ClientError.
is_critical_volume(outcome) ==
    IF "Error" \in DOMAIN outcome
    THEN IF outcome.Error = "InvalidVolume.NotFound" THEN FALSE ELSE TRUE
    ELSE IF "Volumes" \notin DOMAIN outcome \/ outcome.Volumes = <<>> THEN FALSE
    ELSE LET volume == outcome.Volumes[1]
         IN  IF "Tags" \notin DOMAIN volume THEN FALSE
             ELSE \E i \in DOMAIN volume.Tags :
                    /\ volume.Tags[i].Key = CRITICAL_VOLUME_TAG_KEY
                    /\ Lower(volume.Tags[i].Value) = Lower(CRITICAL_VOLUME_TAG_VALUE)

\* ----------------------------------------------- process_volume_snapshots
\* if volume_id != 'unknown' and is_critical_volume(ec2, volume_id): the lookup
\* is made only for a real volume id; lk is <<>> (no lookup) or <<outcome>>.
LookupChoices(volume_id) ==
    IF volume_id # "unknown"
    THEN UNION { { <<o, vs>> : o \in DescribeVolumes(vs) } : vs \in volumes[volume_id] }
    ELSE { <<>> }

\* The effect of the lookup on what is known of the volumes, and its record.
Looked(vid, lk) ==
    /\ lookup' = [lookup EXCEPT ![vid] = IF lk = <<>> THEN @ ELSE Append(@, lk[1])]
    /\ volumes' = IF lk = <<>> THEN volumes
                  ELSE [volumes EXCEPT ![vid] = Observed(@, lk[2], lk[1])]

CriticalGuard(lk) == lk # <<>> /\ is_critical_volume(lk[1])

\* critical = len(snapshots); return deleted, protected, critical, too_few
CriticalReturn(n) == [deleted |-> 0, protected |-> 0, critical |-> n, too_few |-> 0]

\* if len(snapshots) <= MIN_SNAPSHOTS_TO_KEEP
TooFewGuard(n) == n <= MIN_SNAPSHOTS_TO_KEEP

\* Mutant: the early return forgets to count the snapshots it keeps.
TooFewReturn_Uncounted(n) == [deleted |-> 0, protected |-> 0, critical |-> 0, too_few |-> 0]

\* too_few = len(snapshots); return deleted, protected, critical, too_few
TooFewReturn(n) == [deleted |-> 0, protected |-> 0, critical |-> 0, too_few |-> n]

\* Mutant: the walk stops deleting one snapshot too late.
MinCountGuard_Strict(rem) == rem < MIN_SNAPSHOTS_TO_KEEP

\* if remaining <= MIN_SNAPSHOTS_TO_KEEP
MinCountGuard(rem) == rem <= MIN_SNAPSHOTS_TO_KEEP

\* Mutant: a snapshot created at the cutoff counts as old.
OlderThanCutoff_Inclusive(start_time, cutoff) == start_time <= cutoff

\* if start_time < cutoff_date
OlderThanCutoff(start_time, cutoff) == start_time < cutoff

\* Mutant: the in-use error is not recognised.
IsInUseError_Never(e) == FALSE

\* Mutant: every failure of delete_snapshot is taken for an in-use error.
IsInUseError_Always(e) == TRUE

\* Mutant: the protected branch forgets remaining -= 1.
AfterProtected_NotDecremented(rem) == rem

\* remaining -= 1 before the continue of the protected branch
AfterProtected(rem) == rem - 1

\* if 'InvalidSnapshot.InUse' in str(e)
IsInUseError(e) == e = "InvalidSnapshot.InUse"

\* Mutant: the dry-run switch is ignored.
CallsDelete_Always == TRUE

\* if not DRY_RUN: ec2.delete_snapshot(...)
CallsDelete == ~DRY_RUN

\* One iteration of the for loop: the branch taken, what it adds to the local
\* counters, the new value of remaining and whether delete_snapshot was called.
\* del is the outcome delete_snapshot has if it is called.
VisitSnapshot(snapshot, rem, cutoff, del) ==
    IF MinCountGuard(rem)
    THEN [label |-> "KeepMinCount", deleted |-> 0, protected |-> 0, too_few |-> 1,
          remaining |-> rem, call |-> FALSE, removed |-> FALSE]
    ELSE IF is_protected_snapshot(snapshot)
    THEN [label |-> "KeepProtectedTag", deleted |-> 0, protected |-> 1, too_few |-> 0,
          remaining |-> AfterProtected(rem), call |-> FALSE, removed |-> FALSE]
    ELSE IF OlderThanCutoff(snapshot.StartTime, cutoff)
    THEN IF ~CallsDelete
         THEN [label |-> "Delete", deleted |-> 1, protected |-> 0, too_few |-> 0,
               remaining |-> rem - 1, call |-> FALSE, removed |-> FALSE]
         ELSE IF del = "ok"
         THEN [label |-> "Delete", deleted |-> 1, protected |-> 0, too_few |-> 0,
               remaining |-> rem - 1, call |-> TRUE, removed |-> TRUE]
         ELSE IF IsInUseError(del)
         THEN [label |-> "InUse", deleted |-> 0, protected |-> 1, too_few |-> 0,
               remaining |-> rem - 1, call |-> TRUE, removed |-> FALSE]
         ELSE [label |-> "DeleteFailed", deleted |-> 0, protected |-> 0, too_few |-> 0,
               remaining |-> rem - 1, call |-> TRUE, removed |-> FALSE]
    ELSE [label |-> "KeepTooYoung", deleted |-> 0, protected |-> 0, too_few |-> 0,
          remaining |-> rem - 1, call |-> FALSE, removed |-> FALSE]

\* ------------------------------------------------------------ the state
CountOf(inv, k) == Cardinality({ i \in DOMAIN inv : VolumeKey(inv[i]) = k })

Init ==
    /\ MIN_SNAPSHOTS_TO_KEEP \in 0..MaxMin
    /\ DRY_RUN \in BOOLEAN
    /\ account \in UNION { Inventories(n) : n \in 0..MaxSnaps }
    /\ volumes = [v \in VolumeIds |-> VolumeStates(v)]
    /\ now = NowStart
    /\ pc = "start"
    /\ run = 1
    /\ snapshots = <<>>
    /\ volume_snapshots = <<>>
    /\ vi = 0
    /\ si = 0
    /\ remaining = 0
    /\ cutoff_date = 0
    /\ deleted = 0
    /\ protected = 0
    /\ too_few = 0
    /\ deleted_count = 0
    /\ protected_count = 0
    /\ critical_volume_count = 0
    /\ too_few_count = 0
    /\ result = <<>>
    /\ deleteLog = [id \in SnapshotIds |-> <<>>]
    /\ classified = [id \in SnapshotIds |-> <<>>]
    /\ lookup = [k \in Keys |-> <<>>]
    /\ prev = <<>>
    /\ sizes0 = [k \in Keys |-> CountOf(account, k)]

\* ------------------------------------------------------- lambda_handler
\* get_account_snapshots raises ClientError: the handler returns status 500.
GetSnapshotsFails ==
    /\ pc = "start"
    /\ result' = [statusCode |-> 500]
    /\ pc' = "done"
    /\ UNCHANGED <<config, account, volumes, now, run, snapshots, volume_snapshots, vi,
                   locals, totals, deleteLog, classified, lookup, prev, sizes0>>

\* get_account_snapshots succeeds; group_by_volume; the four counters start at 0.
GetSnapshots ==
    /\ pc = "start"
    /\ snapshots' = account
    /\ volume_snapshots' = group_by_volume(account)
    /\ vi' = 1
    /\ deleted_count' = 0
    /\ protected_count' = 0
    /\ critical_volume_count' = 0
    /\ too_few_count' = 0
    /\ pc' = "volumes"
    /\ UNCHANGED <<config, account, volumes, now, run, locals, result,
                   deleteLog, classified, lookup, prev, sizes0>>

\* The for loop has a next volume: its list is sorted in place and handed to
\* process_volume_snapshots, which returns at once or starts its own loop.
AtVolume == pc = "volumes" /\ vi <= Len(volume_snapshots)
volume_id == volume_snapshots[vi].volume_id
sortedSnaps == SortByStartTime(volume_snapshots[vi].snaps)
Ids(seq) == { seq[i].SnapshotId : i \in DOMAIN seq }
Mark(ids, label) ==
    [id \in SnapshotIds |-> IF id \in ids THEN Append(classified[id], label) ELSE classified[id]]

Accumulate(r) ==
    /\ deleted_count' = deleted_count + r.deleted
    /\ protected_count' = protected_count + r.protected
    /\ critical_volume_count' = critical_volume_count + r.critical
    /\ too_few_count' = too_few_count + r.too_few

VolumeCritical ==
    /\ AtVolume
    /\ \E lk \in LookupChoices(volume_id) :
        /\ CriticalGuard(lk)
        /\ Looked(volume_id, lk)
    /\ volume_snapshots' = [volume_snapshots EXCEPT ![vi].snaps = sortedSnaps]
    /\ Accumulate(CriticalReturn(Len(sortedSnaps)))
    /\ classified' = Mark(Ids(sortedSnaps), "KeepCritical")
    /\ vi' = vi + 1
    /\ UNCHANGED <<config, account, now, pc, run, snapshots, locals, result,
                   deleteLog, prev, sizes0>>

VolumeTooFew ==
    /\ AtVolume
    /\ \E lk \in LookupChoices(volume_id) :
        /\ ~CriticalGuard(lk)
        /\ Looked(volume_id, lk)
    /\ TooFewGuard(Len(sortedSnaps))
    /\ volume_snapshots' = [volume_snapshots EXCEPT ![vi].snaps = sortedSnaps]
    /\ Accumulate(TooFewReturn(Len(sortedSnaps)))
    /\ classified' = Mark(Ids(sortedSnaps), "KeepMinCount")
    /\ vi' = vi + 1
    /\ UNCHANGED <<config, account, now, pc, run, snapshots, locals, result,
                   deleteLog, prev, sizes0>>

\* cutoff_date = datetime.now() - timedelta(days=RETENTION_DAYS)
VolumeWalk ==
    /\ AtVolume
    /\ \E lk \in LookupChoices(volume_id) :
        /\ ~CriticalGuard(lk)
        /\ Looked(volume_id, lk)
    /\ ~TooFewGuard(Len(sortedSnaps))
    /\ volume_snapshots' = [volume_snapshots EXCEPT ![vi].snaps = sortedSnaps]
    /\ cutoff_date' = now - RETENTION_DAYS
    /\ remaining' = Len(sortedSnaps)
    /\ si' = 1
    /\ deleted' = 0
    /\ protected' = 0
    /\ too_few' = 0
    /\ pc' = "walk"
    /\ UNCHANGED <<config, account, now, run, snapshots, vi, totals, result,
                   deleteLog, classified, prev, sizes0>>

\* One iteration of the loop of process_volume_snapshots.
Visit ==
    /\ pc = "walk"
    /\ si <= Len(volume_snapshots[vi].snaps)
    /\ \E del \in DeleteOutcomes :
        LET snapshot == volume_snapshots[vi].snaps[si]
            v == VisitSnapshot(snapshot, remaining, cutoff_date, del)
        IN  /\ deleted' = deleted + v.deleted
            /\ protected' = protected + v.protected
            /\ too_few' = too_few + v.too_few
            /\ remaining' = v.remaining
            /\ classified' = Mark({snapshot.SnapshotId}, v.label)
            /\ deleteLog' = [deleteLog EXCEPT ![snapshot.SnapshotId] =
                                  IF v.call THEN Append(@, del) ELSE @]
            /\ account' = IF v.removed THEN Without(account, snapshot.SnapshotId)
                          ELSE account
    /\ si' = si + 1
    /\ UNCHANGED <<config, volumes, now, pc, run, snapshots, volume_snapshots, vi,
                   cutoff_date, totals, result, lookup, prev, sizes0>>

\* The loop is exhausted: return deleted, protected, critical, too_few, which
\* lambda_handler adds to its totals.
ReturnVolume ==
    /\ pc = "walk"
    /\ si > Len(volume_snapshots[vi].snaps)
    /\ Accumulate([deleted |-> deleted, protected |-> protected, critical |-> 0,
                   too_few |-> too_few])
    /\ vi' = vi + 1
    /\ si' = 0
    /\ remaining' = 0
    /\ cutoff_date' = 0
    /\ deleted' = 0
    /\ protected' = 0
    /\ too_few' = 0
    /\ pc' = "volumes"
    /\ UNCHANGED <<config, account, volumes, now, run, snapshots, volume_snapshots,
                   result, deleteLog, classified, lookup, prev, sizes0>>

\* Every volume is processed: the handler returns the summary.
Finish ==
    /\ pc = "volumes"
    /\ vi > Len(volume_snapshots)
    /\ result' = [statusCode |-> 200,
                  dry_run |-> DRY_RUN,
                  deleted_snapshots |-> deleted_count,
                  protected_snapshots |-> protected_count,
                  critical_volume_snapshots |-> critical_volume_count,
                  too_few_snapshots |-> too_few_count,
                  retention_days |-> RETENTION_DAYS,
                  min_snapshots_per_volume |-> MIN_SNAPSHOTS_TO_KEEP]
    /\ volume_snapshots' = <<>>
    /\ vi' = 0
    /\ pc' = "done"
    /\ UNCHANGED <<config, account, volumes, now, run, snapshots, locals, totals,
                   deleteLog, classified, lookup, prev, sizes0>>

\* The schedule invokes the handler again; nothing is carried over but the
\* account's inventory.  A run that failed to fetch the
\* inventory changed nothing, so that the run after it is a first run again:
\* the schedule is followed after the runs that completed.
Labels(id) == { classified[id][i] : i \in DOMAIN classified[id] }

Reinvoke ==
    /\ pc = "done"
    /\ result.statusCode = 200
    /\ run < MaxRuns
    /\ run' = run + 1
    /\ prev' = << [deletesOk |-> \A id \in SnapshotIds :
                                    Labels(id) \cap {"InUse", "DeleteFailed"} = {},
                   lookup |-> lookup] >>
    /\ pc' = "start"
    /\ result' = <<>>
    /\ snapshots' = <<>>
    /\ deleted_count' = 0
    /\ protected_count' = 0
    /\ critical_volume_count' = 0
    /\ too_few_count' = 0
    /\ deleteLog' = [id \in SnapshotIds |-> <<>>]
    /\ classified' = [id \in SnapshotIds |-> <<>>]
    /\ lookup' = [k \in Keys |-> <<>>]
    /\ UNCHANGED <<config, account, volumes, now, volume_snapshots, vi, locals, sizes0>>

Next ==
    \/ GetSnapshotsFails
    \/ GetSnapshots
    \/ VolumeCritical
    \/ VolumeTooFew
    \/ VolumeWalk
    \/ Visit
    \/ ReturnVolume
    \/ Finish

Spec == Init /\ [][Next]_vars

\* The handler under its schedule: one invocation after the other.
NextSched == Next \/ Reinvoke

\* A dry run leaves the account as it found it, so that its next run starts where
\* it started itself: the schedule is followed for live configurations.
InitLive == Init /\ ~DRY_RUN

SpecSched == InitLive /\ [][NextSched]_vars

TypeOK ==
    /\ pc \in {"start", "volumes", "walk", "done"}
    /\ run \in 1..MaxRuns
    /\ \A id \in SnapshotIds : Len(classified[id]) <= 1 /\ Len(deleteLog[id]) <= 1

\* ------------------------------------------- the vocabulary of the claims
\* These are stated on the inventory the run fetched, the configuration, the
\* outcomes of the provider calls and the clock, not on the code's operators.
RunIds == { snapshots[i].SnapshotId : i \in DOMAIN snapshots }
Pos(id) == CHOOSE i \in DOMAIN snapshots : snapshots[i].SnapshotId = id
Snap(id) == snapshots[Pos(id)]
GroupOf(id) == IF "VolumeId" \in DOMAIN Snap(id) THEN Snap(id).VolumeId ELSE "unknown"
Group(k) == { id \in RunIds : GroupOf(id) = k }

\* b comes after a in the creation-time order of a group (ties: listing order).
Newer(a, b) ==
    \/ Snap(b).StartTime > Snap(a).StartTime
    \/ Snap(b).StartTime = Snap(a).StartTime /\ Pos(b) > Pos(a)

InNewestWindow(id) ==
    Cardinality({ b \in Group(GroupOf(id)) : Newer(id, b) }) < MIN_SNAPSHOTS_TO_KEEP

CasePairs == { <<"t", "T">>, <<"r", "R">>, <<"u", "U">>, <<"e", "E">>, <<"f", "F">> }

EqIgnoreCase(a, b) ==
    /\ Len(a) = Len(b)
    /\ \A i \in 1..Len(a) :
        a[i] = b[i] \/ <<a[i], b[i]>> \in CasePairs \/ <<b[i], a[i]>> \in CasePairs

HasTag(r, key, value) ==
    /\ "Tags" \in DOMAIN r
    /\ \E i \in 1..Len(r.Tags) : r.Tags[i].Key = key /\ EqIgnoreCase(r.Tags[i].Value, value)

ProtectedTag(id) == HasTag(Snap(id), "ProtectSnapshot", <<"t", "r", "u", "e">>)
CriticalTag(vr) == HasTag(vr, "CriticalVolume", <<"t", "r", "u", "e">>)
Old(id) == Snap(id).StartTime < now - RETENTION_DAYS

Called(id) == deleteLog[id] # <<>>
Completed == pc = "done" /\ result.statusCode = 200

NotFoundOutcome(o) ==
    \/ "Error" \in DOMAIN o /\ o.Error = "InvalidVolume.NotFound"
    \/ "Volumes" \in DOMAIN o /\ o.Volumes = <<>>
OtherErrorOutcome(o) == "Error" \in DOMAIN o /\ o.Error # "InvalidVolume.NotFound"
CriticalOutcome(o) == "Volumes" \in DOMAIN o /\ o.Volumes # <<>> /\ CriticalTag(o.Volumes[1])

\* The run took volume k for critical.
TreatedCritical(k) ==
    /\ k \in VolumeIds
    /\ lookup[k] # <<>>
    /\ OtherErrorOutcome(lookup[k][1]) \/ CriticalOutcome(lookup[k][1])

\* Volume k is known to exist and to carry the critical tag.
KnownCritical(k) == \A vs \in volumes[k] : vs # <<>> /\ CriticalTag(vs[1])

\* Delete-eligible: step d of the walk.
Eligible(id) ==
    /\ ~TreatedCritical(GroupOf(id))
    /\ ~InNewestWindow(id)
    /\ ~ProtectedTag(id)
    /\ Old(id)

\* What the min-count/protected/age evaluation makes of a snapshot.
NormalLabels(id) ==
    IF InNewestWindow(id) THEN {"KeepMinCount"}
    ELSE IF ProtectedTag(id) THEN {"KeepProtectedTag"}
    ELSE IF ~Old(id) THEN {"KeepTooYoung"}
    ELSE IF DRY_RUN THEN {"Delete"}
    ELSE {"Delete", "InUse", "DeleteFailed"}

\* ---------------------------------------------------------------- claims

\* C1: the newest MIN_SNAPSHOTS_TO_KEEP snapshots of a volume's creation-time
\* ordered group are never delete-eligible, whatever their age and tags, the
\* mode and the outcomes of lookups and deletions: delete_snapshot is never
\* called for them and they are never counted as deleted.
C1_NewestAreKept ==
    /\ \A id \in RunIds :
        InNewestWindow(id) => ~Called(id) /\ "Delete" \notin Labels(id)
    /\ Completed =>
        result.deleted_snapshots <= Cardinality({ id \in RunIds : ~InNewestWindow(id) })

\* An old, untagged snapshot inside the window is kept while an older one of
\* its volume has been deleted.
C1_Witness ==
    /\ Completed
    /\ ~DRY_RUN
    /\ \E a, b \in RunIds :
        /\ GroupOf(a) = GroupOf(b)
        /\ InNewestWindow(a) /\ Old(a) /\ "Tags" \notin DOMAIN Snap(a)
        /\ Labels(a) = {"KeepMinCount"}
        /\ deleteLog[b] = <<"ok">>

\* C2: every snapshot of a volume that carries the critical tag (value equal
\* ignoring case) is kept: no delete_snapshot call, none counted as deleted,
\* protected or too few, and the critical counter grows by the group's size.
C2_CriticalVolumeKept ==
    \A k \in VolumeIds :
        KnownCritical(k) =>
            /\ \A id \in Group(k) : ~Called(id) /\ Labels(id) \subseteq {"KeepCritical"}
            /\ Completed =>
                /\ \A id \in Group(k) : Labels(id) = {"KeepCritical"}
                /\ result.critical_volume_snapshots = Cardinality(Group(k))
                /\ result.deleted_snapshots + result.protected_snapshots
                     + result.too_few_snapshots
                   <= Cardinality(RunIds) - Cardinality(Group(k))

\* A critical volume (tag value in another case than the configured one) with
\* more snapshots than the minimum, one of them otherwise delete-eligible.
C2_Witness ==
    /\ Completed
    /\ ~DRY_RUN
    /\ KnownCritical("vol-1")
    /\ CriticalOutcome(lookup["vol-1"][1])
    /\ Cardinality(Group("vol-1")) > MIN_SNAPSHOTS_TO_KEEP
    /\ \E id \in Group("vol-1") : ~InNewestWindow(id) /\ ~ProtectedTag(id) /\ Old(id)

\* C3: a snapshot carrying the protected tag (key equal exactly, value equal
\* ignoring case) is never deleted, even when older than the retention and
\* outside the newest-minimum window: no call, never counted as deleted.
C3_ProtectedNeverDeleted ==
    /\ \A id \in RunIds :
        ProtectedTag(id) => ~Called(id) /\ "Delete" \notin Labels(id)
    /\ Completed =>
        result.deleted_snapshots <= Cardinality({ id \in RunIds : ~ProtectedTag(id) })

\* A protected snapshot, old and outside the window, is kept while a newer
\* snapshot of its volume has been deleted.
C3_Witness ==
    /\ Completed
    /\ ~DRY_RUN
    /\ \E a, b \in RunIds :
        /\ GroupOf(a) = GroupOf(b)
        /\ ProtectedTag(a) /\ Old(a) /\ ~InNewestWindow(a)
        /\ Labels(a) = {"KeepProtectedTag"}
        /\ Newer(a, b)
        /\ deleteLog[b] = <<"ok">>

\* C4: a failed volume lookup decides the criticality. Not found (or an empty
\* result): not critical, the snapshots get the min-count/protected/age
\* evaluation. Any other provider error: critical, all the snapshots are
\* counted as critical and delete_snapshot is called for none.
C4_LookupFailure ==
    \A k \in VolumeIds :
        lookup[k] # <<>> =>
            /\ NotFoundOutcome(lookup[k][1]) =>
                /\ \A id \in Group(k) :
                    /\ Labels(id) \subseteq NormalLabels(id)
                    /\ Called(id) => Eligible(id)
                /\ Completed =>
                    /\ \A id \in Group(k) : Labels(id) # {}
                    /\ \A id \in Group(k) : Eligible(id) /\ ~DRY_RUN => Called(id)
                    /\ result.critical_volume_snapshots = 0
            /\ OtherErrorOutcome(lookup[k][1]) =>
                /\ \A id \in Group(k) : ~Called(id) /\ Labels(id) \subseteq {"KeepCritical"}
                /\ Completed =>
                    /\ \A id \in Group(k) : Labels(id) = {"KeepCritical"}
                    /\ result.critical_volume_snapshots = Cardinality(Group(k))

\* The lookup failed with another error than not found, and the volume has
\* a snapshot the evaluation would have deleted.
C4_Witness ==
    /\ Completed
    /\ ~DRY_RUN
    /\ lookup["vol-1"] # <<>>
    /\ OtherErrorOutcome(lookup["vol-1"][1])
    /\ \E id \in Group("vol-1") : ~InNewestWindow(id) /\ ~ProtectedTag(id) /\ Old(id)

\* C5: a dry run never calls delete_snapshot; a live run calls it exactly once
\* for each delete-eligible snapshot and never for another, whatever the
\* outcomes of the earlier calls.
C5_DeleteCalls ==
    /\ \A id \in SnapshotIds \ RunIds : ~Called(id)
    /\ DRY_RUN => \A id \in RunIds : ~Called(id)
    /\ ~DRY_RUN =>
        \A id \in RunIds :
            /\ Called(id) => Eligible(id) /\ Len(deleteLog[id]) = 1
            /\ Completed /\ Eligible(id) => Len(deleteLog[id]) = 1

\* A live run in which a deletion failed and a later snapshot was deleted.
C5_Witness ==
    /\ Completed
    /\ ~DRY_RUN
    /\ \E a, b \in RunIds :
        /\ GroupOf(a) = GroupOf(b)
        /\ Newer(a, b)
        /\ deleteLog[a] = <<"RequestLimitExceeded">>
        /\ deleteLog[b] = <<"ok">>
        /\ \A id \in RunIds : ~Eligible(id) => ~Called(id)

\* C6 as stated: for every volume with no more snapshots than the minimum, no
\* deletion and all of its snapshots counted as too few. A critical volume
\* with few snapshots refutes it: its snapshots are counted as critical.
C6_AsStated ==
    Completed =>
        \A k \in Keys :
            Group(k) # {} /\ Cardinality(Group(k)) <= MIN_SNAPSHOTS_TO_KEEP =>
                /\ \A id \in Group(k) : ~Called(id) /\ Labels(id) = {"KeepMinCount"}
                /\ result.too_few_snapshots >= Cardinality(Group(k))

\* C6, amended: for every volume the run does not take for critical and that
\* has no more snapshots than the minimum, no delete_snapshot call, nothing
\* counted as deleted, and all of its snapshots counted as too few (the too-few
\* counter holds exactly the snapshots of non-critical volumes that are among
\* the newest MIN_SNAPSHOTS_TO_KEEP of their volume).
C6_TooFewKept ==
    /\ \A k \in Keys :
        Cardinality(Group(k)) <= MIN_SNAPSHOTS_TO_KEEP /\ ~TreatedCritical(k) =>
            /\ \A id \in Group(k) : ~Called(id) /\ Labels(id) \subseteq {"KeepMinCount"}
            /\ Completed => \A id \in Group(k) : Labels(id) = {"KeepMinCount"}
    /\ Completed =>
        result.too_few_snapshots =
            Cardinality({ id \in RunIds :
                            InNewestWindow(id) /\ ~TreatedCritical(GroupOf(id)) })

\* A live run over a non-critical volume with no more snapshots than the
\* minimum, one of them old and untagged.
C6_Witness ==
    /\ Completed
    /\ ~DRY_RUN
    /\ lookup["vol-1"] # <<>>
    /\ ~TreatedCritical("vol-1")
    /\ Cardinality(Group("vol-1")) <= MIN_SNAPSHOTS_TO_KEEP
    /\ \E id \in Group("vol-1") : Old(id) /\ "Tags" \notin DOMAIN Snap(id)

\* The snapshots of group k that reached the deletion step of the walk.
Candidates(k) ==
    { id \in Group(k) : Labels(id) \cap {"Delete", "InUse", "DeleteFailed"} # {} }

Untagged(k) == \A id \in Group(k) : "Tags" \notin DOMAIN Snap(id)

\* C7 as stated: for a non-critical volume with more snapshots than the minimum
\* and no tags, exactly count - minimum snapshots are delete-eligible, the
\* oldest ones. A snapshot outside the window that is not older than the
\* cutoff refutes it.
C7_AsStated ==
    Completed =>
        \A k \in Keys :
            /\ Cardinality(Group(k)) > MIN_SNAPSHOTS_TO_KEEP
            /\ Untagged(k)
            /\ ~TreatedCritical(k)
            => /\ Candidates(k) = { id \in Group(k) : ~InNewestWindow(id) }
               /\ Cardinality(Candidates(k)) = Cardinality(Group(k)) - MIN_SNAPSHOTS_TO_KEEP

\* C7, amended: for such a volume the delete-eligible snapshots are exactly
\* those of the oldest count - minimum snapshots whose creation time is
\* strictly before the cutoff; they are at most count - minimum.
C7_OldestOldAreCandidates ==
    Completed =>
        \A k \in Keys :
            /\ Cardinality(Group(k)) > MIN_SNAPSHOTS_TO_KEEP
            /\ Untagged(k)
            /\ ~TreatedCritical(k)
            => /\ Candidates(k) = { id \in Group(k) : ~InNewestWindow(id) /\ Old(id) }
               /\ Cardinality({ id \in Group(k) : ~InNewestWindow(id) })
                    = Cardinality(Group(k)) - MIN_SNAPSHOTS_TO_KEEP
               /\ Cardinality(Candidates(k)) <= Cardinality(Group(k)) - MIN_SNAPSHOTS_TO_KEEP

\* Of the two oldest snapshots of an untagged group, outside the window, one
\* is older than the cutoff and a candidate, the other is not.
C7_Witness ==
    /\ Completed
    /\ \E k \in Keys :
        /\ Cardinality(Group(k)) = MIN_SNAPSHOTS_TO_KEEP + 2
        /\ Untagged(k)
        /\ ~TreatedCritical(k)
        /\ \E a, b \in Group(k) :
            /\ ~InNewestWindow(a) /\ Old(a) /\ a \in Candidates(k)
            /\ ~InNewestWindow(b) /\ ~Old(b) /\ Labels(b) = {"KeepTooYoung"}

\* C8: in a live run a failed delete_snapshot call does not abort the run. The
\* step that made the call adds one to protected and nothing to deleted for an
\* in-use error, adds nothing to any counter for another error, removes
\* nothing, decrements remaining and goes on to the next snapshot; and the run
\* ends with status 200 and every snapshot of the inventory disposed of.
FailedCall(id) ==
    /\ Len(deleteLog'[id]) = Len(deleteLog[id]) + 1
    /\ deleteLog'[id][Len(deleteLog'[id])] # "ok"

C8_FailedDeleteStep ==
    \A id \in SnapshotIds :
        FailedCall(id) =>
            /\ pc' = "walk"
            /\ si' = si + 1
            /\ remaining' = remaining - 1
            /\ deleted' = deleted
            /\ too_few' = too_few
            /\ protected' = protected +
                 (IF deleteLog'[id][Len(deleteLog'[id])] = "InvalidSnapshot.InUse"
                  THEN 1 ELSE 0)
            /\ UNCHANGED <<account, totals>>

HasFailedCall == \E id \in SnapshotIds : \E i \in DOMAIN deleteLog[id] : deleteLog[id][i] # "ok"

C8_RunGoesOn ==
    pc = "done" /\ HasFailedCall =>
        /\ result.statusCode = 200
        /\ \A id \in RunIds : Len(classified[id]) = 1

C8_DeleteFailure == [][C8_FailedDeleteStep]_vars /\ []C8_RunGoesOn

\* An in-use failure, then the deletion of a newer snapshot of the same
\* volume, and the run completed.
C8_Witness ==
    /\ Completed
    /\ \E a, b \in RunIds :
        /\ deleteLog[a] = <<"InvalidSnapshot.InUse">>
        /\ GroupOf(b) = GroupOf(a) /\ Newer(a, b) /\ deleteLog[b] = <<"ok">>
    /\ result.protected_snapshots = 1
    /\ result.deleted_snapshots = 1

\* C9: in a run that fetched its inventory, every snapshot is disposed of once
\* and counts for at most one counter; the four counters add up to the
\* inventory less the snapshots kept as too young and less those whose
\* deletion failed with another error than in use; the sum never exceeds the
\* inventory; a dry run counts the delete-eligible snapshots as deleted and
\* removes none.
WithLabel(ls) == Cardinality({ id \in RunIds : Labels(id) \cap ls # {} })

TooYoung ==
    { id \in RunIds : /\ ~TreatedCritical(GroupOf(id))
                      /\ ~InNewestWindow(id)
                      /\ ~ProtectedTag(id)
                      /\ ~Old(id) }

FailedOther ==
    { id \in RunIds : \E i \in DOMAIN deleteLog[id] :
                        deleteLog[id][i] \notin {"ok", "InvalidSnapshot.InUse"} }

CounterSum ==
    result.deleted_snapshots + result.protected_snapshots
        + result.critical_volume_snapshots + result.too_few_snapshots

C9_CountersAddUp ==
    Completed =>
        /\ \A id \in RunIds : Len(classified[id]) = 1
        /\ \A id \in SnapshotIds \ RunIds : classified[id] = <<>>
        /\ result.deleted_snapshots = WithLabel({"Delete"})
        /\ result.protected_snapshots = WithLabel({"KeepProtectedTag", "InUse"})
        /\ result.critical_volume_snapshots = WithLabel({"KeepCritical"})
        /\ result.too_few_snapshots = WithLabel({"KeepMinCount"})
        /\ CounterSum = Len(snapshots) - Cardinality(TooYoung) - Cardinality(FailedOther)
        /\ CounterSum <= Len(snapshots)
        /\ DRY_RUN =>
            /\ result.deleted_snapshots = Cardinality({ id \in RunIds : Eligible(id) })
            /\ account = snapshots

\* A live run with a snapshot kept as too young and one whose deletion
\* failed: neither is counted.
C9_Witness ==
    /\ Completed
    /\ ~DRY_RUN
    /\ TooYoung # {}
    /\ FailedOther # {}
    /\ CounterSum = Len(snapshots) - Cardinality(TooYoung) - Cardinality(FailedOther)
    /\ CounterSum < Len(snapshots)

\* C10 as stated: after a live run whose deletions all succeeded, a second live
\* run with the same configuration, clock and volume tags deletes nothing; and
\* a volume that had the minimum before the first run keeps it. A first run
\* that took the volume for critical because its lookup failed refutes it.
KeepsMinimum ==
    \A k \in Keys :
        sizes0[k] >= MIN_SNAPSHOTS_TO_KEEP => CountOf(account, k) >= MIN_SNAPSHOTS_TO_KEEP

AfterCleanRun == run >= 2 /\ prev[1].deletesOk

NothingDeleted ==
    /\ \A id \in SnapshotIds : ~Called(id)
    /\ deleted = 0
    /\ deleted_count = 0
    /\ Completed => result.deleted_snapshots = 0

C10_AsStated == (AfterCleanRun => NothingDeleted) /\ KeepsMinimum

\* C10, amended: ... and the same outcomes of the volume lookups.
SameLookups == \A k \in Keys : lookup[k] # <<>> => lookup[k] = prev[1].lookup[k]

C10_Fixpoint == (AfterCleanRun /\ SameLookups => NothingDeleted) /\ KeepsMinimum

\* The first run deleted a snapshot; the second, with the same lookup outcome, keeps an old untagged snapshot for the minimum.
C10_Witness ==
    /\ Completed
    /\ AfterCleanRun
    /\ SameLookups
    /\ lookup["vol-1"] # <<>>
    /\ ~TreatedCritical("vol-1")
    /\ CountOf(account, "vol-1") < sizes0["vol-1"]
    /\ \E id \in Group("vol-1") :
        Old(id) /\ "Tags" \notin DOMAIN Snap(id) /\ Labels(id) = {"KeepMinCount"}

====
